---- MODULE Spec2Model ----
(***************************************************************************)
(* pandas-formula: the function registry (functions/registry.py) and the   *)
(* formula engine (engine.py) as a state machine.                          *)
(*                                                                         *)
(* A Python dict is an insertion-ordered mapping; it is modelled as a      *)
(* sequence of records [k |-> key, v |-> value] with distinct keys.        *)
(* A callable is a record [kind, k]:                                       *)
(*   [kind |-> "mul",   k |-> n]   lambda x: x * n                         *)
(*   [kind |-> "neg",   k |-> 0]   lambda a: -a        (builtin neg)       *)
(*   [kind |-> "const", k |-> v]   lambda: v           (add_constant)      *)
(* The docs dict held by the attribute _function_docs is the value DocsObj.*)
(***************************************************************************)
EXTENDS Integers, Sequences, FiniteSets, TLC

VARIABLES
    rdict,          \* FunctionRegistry.__dict__ : the instance attributes
    function_docs,  \* contents of the dict created in FunctionRegistry.__init__
    constants,      \* FormulaEngine._constants
    formulas,       \* FormulaEngine._formulas
    registered,     \* history: name -> callable of the latest register call, or NotRegistered
    regdoc,         \* history: name -> doc argument of the latest register call
    err,            \* exception type raised by the last operation, or "none"
    call            \* observation of the last operation that is observed

vars == <<rdict, function_docs, constants, formulas, registered, regdoc, err, call>>

----------------------------------------------------------------------------
(* Bounds *)

MaxBatch == 2       \* entries in one register_batch mapping
MaxFormulas == 2    \* pairs in a formulas mapping passed to apply / validate
MaxStore == 2       \* formulas accumulated with add_formula

----------------------------------------------------------------------------
(* Insertion-ordered dict *)

DictKeys(d) == {d[i].k : i \in DOMAIN d}

DictGet(d, key) == (CHOOSE i \in DOMAIN d : d[i].k = key)

DictVal(d, key) == d[DictGet(d, key)].v

\* mutation of DictSet: the key moves to the end
DictSetMoveToEnd(d, key, value) ==
    Append(SelectSeq(d, LAMBDA e : e.k # key), [k |-> key, v |-> value])

\* d[key] = value : an existing key keeps its position, a new key is appended
DictSet(d, key, value) ==
    IF key \in DictKeys(d)
    THEN [i \in DOMAIN d |-> IF d[i].k = key THEN [k |-> key, v |-> value] ELSE d[i]]
    ELSE Append(d, [k |-> key, v |-> value])

DictDel(d, key) == SelectSeq(d, LAMBDA e : e.k # key)

KeyList(d) == [i \in DOMAIN d |-> d[i].k]

----------------------------------------------------------------------------
(* Values *)

DocsObj == [kind |-> "docsdict", k |-> 0]
Missing == [kind |-> "missing", k |-> 0]
NotRegistered == [kind |-> "notregistered", k |-> 0]
Opaque == [kind |-> "opaque", k |-> 0]

Times3 == [kind |-> "mul", k |-> 3]
Times2 == [kind |-> "mul", k |-> 2]
NegFn == [kind |-> "neg", k |-> 0]
ConstFn(value) == [kind |-> "const", k |-> value]

\* the names the registry is asked about: a user function, a user function
\* with a leading underscore, a method of the class, the docs attribute and
\* a builtin
Names == {"triple", "_helper", "get", "_function_docs", "neg"}
\* the names register is called with (an attribute named like a method would
\* replace that method of the instance)
RegNames == {"triple", "_helper", "_function_docs"}
\* the names unregister is called with
UnregNames == {"triple", "_helper", "get", "_function_docs"}
BatchNames == {"triple", "_helper"}
ConstNames == {"triple"}
UserFuncs == {Times3, Times2}
Docs == {"", "A"}
ConstValues == {1, 2}

\* attributes every FunctionRegistry instance inherits from its class
ClassAttrs == {"register", "unregister", "has", "get", "list_functions",
               "get_doc", "as_dict"}

\* k.startswith("_")
StartsWithUnderscore(name) == name \in {"_helper", "_function_docs"}

\* callable(value)
Callable(value) == value.kind \in {"mul", "neg", "const"}

----------------------------------------------------------------------------
(* FunctionRegistry *)

\* hasattr(self, name)
HasAttr(d, name) == name \in DictKeys(d) \/ name \in ClassAttrs

\* the object self._function_docs evaluates to
DocsAttr(d) ==
    IF "_function_docs" \in DictKeys(d) THEN DictVal(d, "_function_docs") ELSE Missing

\* register(name, func, doc): the registry after the call and the exception
RegistryRegister(d, docs, name, func, doc) ==
    LET d1 == DictSet(d, name, func)
        target == DocsAttr(d1)
    IN  IF doc = "" THEN [d |-> d1, docs |-> docs, err |-> "none"]
        ELSE IF target = DocsObj
             THEN [d |-> d1,
                   docs |-> [n \in (DOMAIN docs) \cup {name} |->
                                IF n = name THEN doc ELSE docs[n]],
                   err |-> "none"]
        ELSE IF target = Missing
             THEN [d |-> d1, docs |-> docs, err |-> "AttributeError"]
        ELSE [d |-> d1, docs |-> docs, err |-> "TypeError"]

\* unregister(name)
RegistryUnregister(d, docs, name) ==
    IF HasAttr(d, name) /\ name \notin DictKeys(d)
    THEN [d |-> d, docs |-> docs, err |-> "AttributeError"]
    ELSE LET d1 == IF HasAttr(d, name) THEN DictDel(d, name) ELSE d
             target == DocsAttr(d1)
         IN  IF target = DocsObj
             THEN [d |-> d1,
                   docs |-> [n \in (DOMAIN docs) \ {name} |-> docs[n]],
                   err |-> "none"]
             ELSE [d |-> d1, docs |-> docs, err |-> "AttributeError"]

\* has(name)
has(name) == HasAttr(rdict, name) /\ name # "_function_docs"

\* getattr(self, name) for a name that hasattr accepts
GetAttr(d, name) == IF name \in DictKeys(d) THEN DictVal(d, name) ELSE Opaque

\* get(name): the callable returned, or the exception raised.  When the
\* attribute "get" has been set by register, registry.get is that user
\* callable and its result is not a registry entry.
get(name) ==
    IF "get" \in DictKeys(rdict) THEN [err |-> "none", val |-> Opaque]
    ELSE IF ~has(name) THEN [err |-> "KeyError", val |-> Missing]
    ELSE [err |-> "none", val |-> GetAttr(rdict, name)]

\* list_functions()
list_functions ==
    KeyList(SelectSeq(rdict, LAMBDA e : ~StartsWithUnderscore(e.k) /\ Callable(e.v)))

\* get_doc(name)
get_doc(name) ==
    IF DocsAttr(rdict) = DocsObj
    THEN [err |-> "none",
          val |-> IF name \in DOMAIN function_docs THEN function_docs[name] ELSE ""]
    ELSE [err |-> "AttributeError", val |-> ""]

\* as_dict()
as_dict == rdict

----------------------------------------------------------------------------
(* Dataset: an insertion-ordered dict  column name -> sequence of row values *)

Columns == {"x", "y", "z"}      \* target columns of the formulas
StoreColumns == {"y", "z"}      \* target columns add_formula is called with
Args == {"x", "y"}              \* columns the formulas read
FormulaFns == {"triple"}        \* functions the formulas call

\* the formula text "@fn(arg)"
FormulaTexts == [fn : FormulaFns, arg : Args]

DfX == <<[k |-> "x", v |-> <<1, 2>>]>>
Datasets == {DfX}

\* df.copy()
Copy(df) == df

\* df.head(1)
Head1(df) == [i \in DOMAIN df |-> [k |-> df[i].k, v |-> SubSeq(df[i].v, 1, 1)]]

\* calling a registered callable with one column argument
CallFn(f, col) ==
    IF f.kind = "mul" THEN [ok |-> TRUE, v |-> [i \in DOMAIN col |-> col[i] * f.k]]
    ELSE IF f.kind = "neg" THEN [ok |-> TRUE, v |-> [i \in DOMAIN col |-> 0 - col[i]]]
    ELSE [ok |-> FALSE, v |-> <<>>]

\* _eval_formula: df.eval("column = @fn(arg)", local_dict=registry.as_dict(),
\* inplace=True).  The function name resolves in local_dict, the argument in
\* the columns of df; the column is assigned only when the evaluation succeeds.
EvalFormula(df, column, formula) ==
    IF formula.fn \notin DictKeys(as_dict)
    THEN [ok |-> FALSE, df |-> df, cause |-> <<"name is not defined: @", formula.fn>>]
    ELSE IF formula.arg \notin DictKeys(df)
    THEN [ok |-> FALSE, df |-> df, cause |-> <<"name is not defined: ", formula.arg>>]
    ELSE LET r == CallFn(DictVal(as_dict, formula.fn), DictVal(df, formula.arg))
         IN  IF r.ok
             THEN [ok |-> TRUE, df |-> DictSet(df, column, r.v), cause |-> <<>>]
             ELSE [ok |-> FALSE, df |-> df, cause |-> <<"TypeError">>]

\* _resolve_formulas: formulas or self._formulas  (None and {} are falsy)
ResolveFormulas(given, supplied) ==
    IF given /\ supplied # <<>> THEN supplied ELSE formulas

\* mutation of ResultRef: apply never copies
ResultRefNoCopy(inplace) == "caller"

\* the object apply works on: df if inplace else df.copy()
ResultRef(inplace) == IF inplace THEN "caller" ELSE "copy"

\* mutation of SampleRef: validate runs the formulas on df itself
SampleRefCaller == "caller"

\* the object validate works on: sample = df.head(1).copy()
SampleRef == "sample"

\* the ValueError message of apply
ApplyMessage(column, formula, cause) ==
    <<"Failed to evaluate formula for '", column, "': ", formula, "\nError: ", cause>>

\* mutation of ApplyLoop: the pairs are walked from the last to the first
RECURSIVE ApplyLoopReversed(_, _, _, _)
ApplyLoopReversed(work, fs, i, attempted) ==
    IF i > Len(fs)
    THEN [work |-> work, raised |-> FALSE, message |-> <<>>, attempted |-> attempted]
    ELSE LET p == fs[Len(fs) + 1 - i]
             r == EvalFormula(work, p.k, p.v)
         IN  IF r.ok
             THEN ApplyLoopReversed(r.df, fs, i + 1, Append(attempted, p.k))
             ELSE [work |-> work, raised |-> TRUE,
                   message |-> ApplyMessage(p.k, p.v, r.cause),
                   attempted |-> Append(attempted, p.k)]

\* mutation of ApplyLoop: a failing formula does not end the loop, the error
\* of the first failure is raised once every pair has been tried
RECURSIVE ApplyLoopNoFailFast(_, _, _, _)
ApplyLoopNoFailFast(work, fs, i, attempted) ==
    IF i > Len(fs)
    THEN [work |-> work, raised |-> FALSE, message |-> <<>>, attempted |-> attempted]
    ELSE LET r == EvalFormula(work, fs[i].k, fs[i].v)
             rest == ApplyLoopNoFailFast(r.df, fs, i + 1, Append(attempted, fs[i].k))
         IN  IF r.ok
             THEN rest
             ELSE [work |-> rest.work, raised |-> TRUE,
                   message |-> ApplyMessage(fs[i].k, fs[i].v, r.cause),
                   attempted |-> rest.attempted]

\* the for loop of apply from pair i on: the working dataset, whether the
\* loop raised, the message, and the columns whose formula was attempted
RECURSIVE ApplyLoop(_, _, _, _)
ApplyLoop(work, fs, i, attempted) ==
    IF i > Len(fs)
    THEN [work |-> work, raised |-> FALSE, message |-> <<>>, attempted |-> attempted]
    ELSE LET r == EvalFormula(work, fs[i].k, fs[i].v)
         IN  IF r.ok
             THEN ApplyLoop(r.df, fs, i + 1, Append(attempted, fs[i].k))
             ELSE [work |-> work, raised |-> TRUE,
                   message |-> ApplyMessage(fs[i].k, fs[i].v, r.cause),
                   attempted |-> Append(attempted, fs[i].k)]

\* the message validate appends for a failing column
ValidateMessage(column, cause) == <<column, ": ", cause>>

\* mutation of ValidateLoop: the loop ends at the first failing formula
RECURSIVE ValidateLoopFailFast(_, _, _, _, _)
ValidateLoopFailFast(sample, fs, i, errors, attempted) ==
    IF i > Len(fs)
    THEN [work |-> sample, errors |-> errors, attempted |-> attempted]
    ELSE LET r == EvalFormula(sample, fs[i].k, fs[i].v)
         IN  IF r.ok
             THEN ValidateLoopFailFast(r.df, fs, i + 1, errors,
                                       Append(attempted, fs[i].k))
             ELSE [work |-> sample,
                   errors |-> Append(errors, ValidateMessage(fs[i].k, r.cause)),
                   attempted |-> Append(attempted, fs[i].k)]

\* the for loop of validate from pair i on
RECURSIVE ValidateLoop(_, _, _, _, _)
ValidateLoop(sample, fs, i, errors, attempted) ==
    IF i > Len(fs)
    THEN [work |-> sample, errors |-> errors, attempted |-> attempted]
    ELSE LET r == EvalFormula(sample, fs[i].k, fs[i].v)
         IN  IF r.ok
             THEN ValidateLoop(r.df, fs, i + 1, errors, Append(attempted, fs[i].k))
             ELSE ValidateLoop(sample, fs, i + 1,
                               Append(errors, ValidateMessage(fs[i].k, r.cause)),
                               Append(attempted, fs[i].k))

\* formulas mappings of at most n pairs (distinct target columns)
FormulaMaps(n) ==
    {m \in UNION {[1..len -> [k : Columns, v : FormulaTexts]] : len \in 0..n} :
        \A i, j \in DOMAIN m : i # j => m[i].k # m[j].k}

NoCall ==
    [op |-> "none", inplace |-> FALSE, given |-> FALSE, supplied |-> <<>>,
     resolved |-> <<>>, before |-> <<>>, caller |-> <<>>, work |-> <<>>,
     same |-> FALSE, raised |-> FALSE, message |-> <<>>, errors |-> <<>>,
     attempted |-> <<>>, store |-> <<>>]

----------------------------------------------------------------------------
(* Initial state *)

\* FunctionRegistry(): __init__ sets the attribute _function_docs to a new dict
EmptyRegistry == [d |-> <<[k |-> "_function_docs", v |-> DocsObj]>>, docs |-> <<>>]

\* create_default_registry(): the builtin neg stands for the builtin functions
DefaultRegistry ==
    RegistryRegister(EmptyRegistry.d, EmptyRegistry.docs,
                     "neg", NegFn, "Negate: @neg(a)")

\* FormulaEngine(): include_defaults is True, the registry is the default one
Init ==
    LET r == DefaultRegistry
    IN  /\ rdict = r.d
        /\ function_docs = r.docs
        /\ constants = <<>>
        /\ formulas = <<>>
        /\ registered = [n \in Names |->
                            IF n \in DictKeys(r.d) /\ n # "_function_docs"
                            THEN DictVal(r.d, n) ELSE NotRegistered]
        /\ regdoc = [n \in Names |-> IF n \in DOMAIN r.docs THEN r.docs[n] ELSE ""]
        /\ err = "none"
        /\ call = NoCall

----------------------------------------------------------------------------
(* Operations.  err and call describe the last operation only. *)

\* FormulaEngine.register(name, func, doc) -> FunctionRegistry.register
Register(name, func, doc) ==
    LET r == RegistryRegister(rdict, function_docs, name, func, doc)
    IN  /\ rdict' = r.d
        /\ function_docs' = r.docs
        /\ err' = r.err
        /\ registered' = [registered EXCEPT ![name] = func]
        /\ regdoc' = [regdoc EXCEPT ![name] = doc]
        /\ call' = NoCall
        /\ UNCHANGED <<constants, formulas>>

\* the entries of a register_batch mapping: a bare callable or a (func, doc) tuple
BatchEntries ==
    [tuple : {FALSE}, func : UserFuncs, doc : {""}] \cup
    [tuple : {TRUE}, func : UserFuncs, doc : Docs \ {""}]

BatchMaps(n) ==
    {m \in UNION {[1..len -> [k : BatchNames, v : BatchEntries]] : len \in 0..n} :
        \A i, j \in DOMAIN m : i # j => m[i].k # m[j].k}

\* the for loop of register_batch from entry i on; an exception ends the loop
RECURSIVE BatchLoop(_, _, _, _, _, _)
BatchLoop(d, docs, reg, rdoc, m, i) ==
    IF i > Len(m)
    THEN [d |-> d, docs |-> docs, reg |-> reg, rdoc |-> rdoc, err |-> "none"]
    ELSE LET doc == IF m[i].v.tuple THEN m[i].v.doc ELSE ""
             r == RegistryRegister(d, docs, m[i].k, m[i].v.func, doc)
             reg1 == [reg EXCEPT ![m[i].k] = m[i].v.func]
             rdoc1 == [rdoc EXCEPT ![m[i].k] = doc]
         IN  IF r.err = "none"
             THEN BatchLoop(r.d, r.docs, reg1, rdoc1, m, i + 1)
             ELSE [d |-> r.d, docs |-> r.docs, reg |-> reg1, rdoc |-> rdoc1,
                   err |-> r.err]

\* FormulaEngine.register_batch(functions)
RegisterBatch(m) ==
    LET r == BatchLoop(rdict, function_docs, registered, regdoc, m, 1)
    IN  /\ rdict' = r.d
        /\ function_docs' = r.docs
        /\ err' = r.err
        /\ registered' = r.reg
        /\ regdoc' = r.rdoc
        /\ call' = NoCall
        /\ UNCHANGED <<constants, formulas>>

\* FormulaEngine.add_constant(name, value)
AddConstant(name, value) ==
    LET r == RegistryRegister(rdict, function_docs, name, ConstFn(value), "")
    IN  /\ constants' = DictSet(constants, name, value)
        /\ rdict' = r.d
        /\ function_docs' = r.docs
        /\ err' = r.err
        /\ registered' = [registered EXCEPT ![name] = ConstFn(value)]
        /\ regdoc' = [regdoc EXCEPT ![name] = ""]
        /\ call' = NoCall
        /\ UNCHANGED formulas

\* FunctionRegistry.unregister(name)
Unregister(name) ==
    LET r == RegistryUnregister(rdict, function_docs, name)
    IN  /\ rdict' = r.d
        /\ function_docs' = r.docs
        /\ err' = r.err
        /\ registered' = [registered EXCEPT ![name] = NotRegistered]
        /\ regdoc' = [regdoc EXCEPT ![name] = ""]
        /\ call' = NoCall
        /\ UNCHANGED <<constants, formulas>>

\* FormulaEngine.add_formula(column, formula); call.store is the store before
\* the operation
AddFormula(column, formula) ==
    /\ Len(DictSet(formulas, column, formula)) <= MaxStore
    /\ formulas' = DictSet(formulas, column, formula)
    /\ err' = "none"
    /\ call' = [NoCall EXCEPT !.op = "add_formula",
                              !.supplied = <<[k |-> column, v |-> formula]>>,
                              !.store = formulas]
    /\ UNCHANGED <<rdict, function_docs, constants, registered, regdoc>>

\* FormulaEngine.apply(df, formulas, inplace); given = FALSE is formulas=None
Apply(df, given, supplied, inplace) ==
    LET ref == ResultRef(inplace)
        heap == [caller |-> df, copy |-> Copy(df)]
        resolved == ResolveFormulas(given, supplied)
        r == ApplyLoop(heap[ref], resolved, 1, <<>>)
        heap1 == [heap EXCEPT ![ref] = r.work]
    IN  /\ call' = [op |-> "apply", inplace |-> inplace, given |-> given,
                    supplied |-> supplied, resolved |-> resolved, before |-> df,
                    caller |-> heap1.caller, work |-> heap1[ref],
                    same |-> (ref = "caller"), raised |-> r.raised,
                    message |-> r.message, errors |-> <<>>,
                    attempted |-> r.attempted, store |-> formulas]
        /\ err' = IF r.raised THEN "ValueError" ELSE "none"
        /\ UNCHANGED <<rdict, function_docs, constants, formulas, registered, regdoc>>

\* FormulaEngine.validate(df, formulas)
Validate(df, given, supplied) ==
    LET ref == SampleRef
        heap == [caller |-> df, sample |-> Copy(Head1(df))]
        resolved == ResolveFormulas(given, supplied)
        r == ValidateLoop(heap[ref], resolved, 1, <<>>, <<>>)
        heap1 == [heap EXCEPT ![ref] = r.work]
    IN  /\ call' = [op |-> "validate", inplace |-> FALSE, given |-> given,
                    supplied |-> supplied, resolved |-> resolved, before |-> df,
                    caller |-> heap1.caller, work |-> heap1[ref],
                    same |-> FALSE, raised |-> FALSE,
                    message |-> <<>>, errors |-> r.errors,
                    attempted |-> r.attempted, store |-> formulas]
        /\ err' = "none"
        /\ UNCHANGED <<rdict, function_docs, constants, formulas, registered, regdoc>>

----------------------------------------------------------------------------
(* Configuration import and export *)

\* pandas_formula.__version__
Version == "0.1.0"

MaxColumns == 2

\* from_dict only tests a formula text for emptiness and stores it as it is,
\* so the configuration operations keep the text as a string
ConfigTexts == {"", "@triple(x)"}

\* an entry of the columns mapping given as a bare string
BareEntry(text) ==
    [bare |-> TRUE, formula |-> text, has_enabled |-> FALSE, enabled |-> TRUE]

\* an entry given as a record; has_enabled = FALSE is the record without the
\* key "enabled"; a record without the key "formula" reads as formula ""
RecordEntries ==
    {[bare |-> FALSE, formula |-> t, has_enabled |-> FALSE, enabled |-> TRUE] :
        t \in ConfigTexts}
    \cup [bare : {FALSE}, formula : ConfigTexts, has_enabled : {TRUE},
          enabled : BOOLEAN]

ConfigEntries == {BareEntry(t) : t \in ConfigTexts} \cup RecordEntries

ColumnMaps(n) ==
    {m \in UNION {[1..len -> [k : StoreColumns, v : ConfigEntries]] : len \in 0..n} :
        \A i, j \in DOMAIN m : i # j => m[i].k # m[j].k}

\* the constants mapping; a configuration without the key reads as {}
ConstantMaps == {<<>>} \cup {<<[k |-> n, v |-> c]>> : n \in ConstNames, c \in ConstValues}

Configs == [constants : ConstantMaps, columns : ColumnMaps(MaxColumns)]

\* FormulaEngine.to_dict(): the store is exported as bare strings
ToDict(cs, fs) ==
    [version |-> Version,
     constants |-> cs,
     columns |-> [i \in DOMAIN fs |-> [k |-> fs[i].k, v |-> BareEntry(fs[i].v)]]]

\* the engine cls(**kwargs) builds, as a record of its fields
NewEngine ==
    LET r == DefaultRegistry
    IN  [d |-> r.d, docs |-> r.docs, constants |-> <<>>, formulas |-> <<>>,
         reg |-> [n \in Names |->
                    IF n \in DictKeys(r.d) /\ n # "_function_docs"
                    THEN DictVal(r.d, n) ELSE NotRegistered],
         rdoc |-> [n \in Names |-> IF n \in DOMAIN r.docs THEN r.docs[n] ELSE ""]]

\* from_dict: for name, value in config.get("constants", {}).items():
\*                engine.add_constant(name, value)
RECURSIVE ConstantLoop(_, _, _)
ConstantLoop(e, cs, i) ==
    IF i > Len(cs) THEN e
    ELSE LET name == cs[i].k
             value == cs[i].v
             r == RegistryRegister(e.d, e.docs, name, ConstFn(value), "")
         IN  ConstantLoop([e EXCEPT !.constants = DictSet(e.constants, name, value),
                                    !.d = r.d, !.docs = r.docs,
                                    !.reg[name] = ConstFn(value),
                                    !.rdoc[name] = ""],
                          cs, i + 1)

\* from_dict: the loop over config.get("columns", {}).items()
RECURSIVE ColumnLoop(_, _, _)
ColumnLoop(store, cols, i) ==
    IF i > Len(cols) THEN store
    ELSE LET column == cols[i].k
             col_config == cols[i].v
             formula == col_config.formula
             enabled == IF col_config.has_enabled THEN col_config.enabled ELSE TRUE
         IN  IF ~col_config.bare /\ ~enabled
             THEN ColumnLoop(store, cols, i + 1)
             ELSE IF formula # ""
                  THEN ColumnLoop(DictSet(store, column, formula), cols, i + 1)
                  ELSE ColumnLoop(store, cols, i + 1)

\* FormulaEngine.from_dict(config), the engine it returns
FromDictEngine(config) ==
    LET e == ConstantLoop(NewEngine, config.constants, 1)
    IN  [e EXCEPT !.formulas = ColumnLoop(e.formulas, config.columns, 1)]

\* engine = FormulaEngine.from_dict(config): the new engine takes the place of
\* the one observed
FromDict(config) ==
    LET e == FromDictEngine(config)
    IN  /\ rdict' = e.d
        /\ function_docs' = e.docs
        /\ constants' = e.constants
        /\ formulas' = e.formulas
        /\ registered' = e.reg
        /\ regdoc' = e.rdoc
        /\ err' = "none"
        /\ call' = [op |-> "from_dict", config |-> config]

\* engine.to_dict(), the exported configuration is observed
ToDictCall ==
    /\ call' = [op |-> "to_dict", config |-> ToDict(constants, formulas)]
    /\ err' = "none"
    /\ UNCHANGED <<rdict, function_docs, constants, formulas, registered, regdoc>>

----------------------------------------------------------------------------
(* extract_references.  A formula string is a sequence of one-character     *)
(* strings; a name is such a sequence too.                                  *)

Letters ==
    {"a", "b", "c", "d", "e", "f", "g", "h", "i", "j", "k", "l", "m", "n", "o",
     "p", "q", "r", "s", "t", "u", "v", "w", "x", "y", "z", "A", "B", "C", "D",
     "E", "F", "G", "H", "I", "J", "K", "L", "M", "N", "O", "P", "Q", "R", "S",
     "T", "U", "V", "W", "X", "Y", "Z"}
Digits == {"0", "1", "2", "3", "4", "5", "6", "7", "8", "9"}

\* \w
WordChars == Letters \cup Digits \cup {"_"}
IsWord(c) == c \in WordChars
\* \d
IsDigit(c) == c \in Digits
\* \s
SpaceChars == {" ", "\t", "\n"}
\* [A-Za-z_]
IsIdentStart(c) == c \in Letters \/ c = "_"
\* [\w.\[\]]
IdentChars == WordChars \cup {".", "[", "]"}

\* the last index of the longest run of characters of the class cls that
\* starts at index i; i - 1 when s[i] is not in the class (a greedy X*)
RunEnd(s, i, cls) ==
    IF \E j \in i..Len(s) : s[j] \notin cls
    THEN (CHOOSE j \in i..Len(s) :
            s[j] \notin cls /\ \A m \in i..(j - 1) : s[m] \in cls) - 1
    ELSE Len(s)

\* _FUNC_PATTERN.findall(formula) as a set: @(\w+)
FuncNames(s) ==
    {SubSeq(s, i + 1, RunEnd(s, i + 1, WordChars)) :
        i \in {p \in 1..(Len(s) - 1) : s[p] = "@" /\ IsWord(s[p + 1])}}

\* _KWARG_PATTERN.findall(formula) as a set: \b(\w+)\s*=  matches a whole run
\* of word characters that is followed by optional whitespace and "="
KwargNames(s) ==
    {SubSeq(s, i, RunEnd(s, i, WordChars)) :
        i \in {p \in 1..Len(s) :
                /\ IsWord(s[p])
                /\ (p = 1 \/ ~IsWord(s[p - 1]))
                /\ LET q == RunEnd(s, RunEnd(s, p, WordChars) + 1, SpaceChars) + 1
                   IN  q <= Len(s) /\ s[q] = "="}}

\* the index where a match of _STRING_LITERAL that starts at i ends, 0 when
\* there is none: '[^']*' | "[^"]*"
LiteralEnd(s, i) ==
    IF s[i] \in {"'", "\""} /\ \E j \in (i + 1)..Len(s) : s[j] = s[i]
    THEN CHOOSE j \in (i + 1)..Len(s) :
            s[j] = s[i] /\ \A m \in (i + 1)..(j - 1) : s[m] # s[i]
    ELSE 0

\* _STRING_LITERAL.sub("", s), from index i on
RECURSIVE StripLiterals(_, _)
StripLiterals(s, i) ==
    IF i > Len(s) THEN <<>>
    ELSE IF LiteralEnd(s, i) > 0 THEN StripLiterals(s, LiteralEnd(s, i) + 1)
    ELSE <<s[i]>> \o StripLiterals(s, i + 1)

\* the index where a match of _SCI_NOTATION that starts at i ends, 0 when
\* there is none: \d+\.?\d*e[+-]?\d+ with IGNORECASE
SciEnd(s, i) ==
    IF ~IsDigit(s[i]) THEN 0
    ELSE LET d1 == RunEnd(s, i, Digits)
             dot == IF d1 < Len(s) /\ s[d1 + 1] = "." THEN d1 + 1 ELSE d1
             d2 == RunEnd(s, dot + 1, Digits)
             \* \.?\d* gives the match back when no "e" follows it
             m == IF d2 < Len(s) /\ s[d2 + 1] \in {"e", "E"} THEN d2 ELSE d1
             e == m + 1
             sign == IF e < Len(s) /\ s[e + 1] \in {"+", "-"} THEN e + 1 ELSE e
             withSign == RunEnd(s, sign + 1, Digits)
             noSign == RunEnd(s, e + 1, Digits)
         IN  IF ~(e <= Len(s) /\ s[e] \in {"e", "E"}) THEN 0
             ELSE IF withSign > sign THEN withSign
             ELSE IF noSign > e THEN noSign
             ELSE 0

\* _SCI_NOTATION.sub("", s), from index i on
RECURSIVE StripSci(_, _)
StripSci(s, i) ==
    IF i > Len(s) THEN <<>>
    ELSE IF SciEnd(s, i) > 0 THEN StripSci(s, SciEnd(s, i) + 1)
    ELSE <<s[i]>> \o StripSci(s, i + 1)

\* _IDENTIFIER_PATTERN.findall(s) as a set, from index i on: [A-Za-z_][\w.\[\]]*
RECURSIVE Identifiers(_, _)
Identifiers(s, i) ==
    IF i > Len(s) THEN {}
    ELSE IF IsIdentStart(s[i])
         THEN LET j == RunEnd(s, i, IdentChars)
              IN  {SubSeq(s, i, j)} \cup Identifiers(s, j + 1)
    ELSE Identifiers(s, i + 1)

\* _NUMERIC_PATTERN.match(name): ^-?\d+\.?\d*$
IsNumeric(name) ==
    LET start == IF name # <<>> /\ name[1] = "-" THEN 2 ELSE 1
        d1 == RunEnd(name, start, Digits)
        dot == IF d1 < Len(name) /\ name[d1 + 1] = "." THEN d1 + 1 ELSE d1
        d2 == RunEnd(name, dot + 1, Digits)
    IN  d1 >= start /\ d2 = Len(name)

\* FormulaEngine.extract_references(formula)
extract_references(formula) ==
    LET func_names == FuncNames(formula)
        kwarg_names == KwargNames(formula)
        cleaned == StripSci(StripLiterals(formula, 1), 1)
        all_ids == Identifiers(cleaned, 1)
    IN  {name \in all_ids :
            name \notin func_names /\ name \notin kwarg_names /\ ~IsNumeric(name)}

----------------------------------------------------------------------------
(* The formulas extract_references is called with: expressions of the       *)
(* formula language @name(arg, ..., kw=val, ...) and the text of each       *)

MaxIdLen == 4       \* characters of a bare identifier
MaxArgs == 2        \* arguments of one call

Id(name) == [kind |-> "id", name |-> name, quote |-> "", args |-> <<>>]
Num(text) == [kind |-> "num", name |-> text, quote |-> "", args |-> <<>>]
Str(quote, content) == [kind |-> "str", name |-> content, quote |-> quote, args |-> <<>>]
CallExpr(fn, args) == [kind |-> "call", name |-> fn, quote |-> "", args |-> args]
\* a positional argument has the empty label
Pos(value) == [label |-> <<>>, value |-> value]
Kw(label, value) == [label |-> label, value |-> value]

\* the formula string of an expression
RECURSIVE Render(_)
RECURSIVE RenderArgs(_, _)
Render(e) ==
    IF e.kind = "str" THEN <<e.quote>> \o e.name \o <<e.quote>>
    ELSE IF e.kind = "call"
         THEN <<"@">> \o e.name \o <<"(">> \o RenderArgs(e.args, 1) \o <<")">>
    ELSE e.name
RenderArgs(args, i) ==
    IF i > Len(args) THEN <<>>
    ELSE (IF i > 1 THEN <<",", " ">> ELSE <<>>)
         \o (IF args[i].label # <<>> THEN args[i].label \o <<"=">> ELSE <<>>)
         \o Render(args[i].value)
         \o RenderArgs(args, i + 1)

IdChars == {"a", "e", "1", "_"}

\* the identifiers of at most n characters over IdChars
BareIdentifiers(n) ==
    {s \in UNION {[1..len -> IdChars] : len \in 1..n} :
        IsIdentStart(s[1]) /\ \A i \in DOMAIN s : IsWord(s[i])}

ArgNames == {<<"a">>, <<"a", "1", "e", "1">>}
FuncIds == {<<"f">>, <<"a">>}
Labels == {<<"k">>, <<"a">>}
Numbers == {<<"1", "e", "6">>, <<"0", ".", "5">>}
Quotes == {"'", "\""}
LiteralTexts == {<<"a">>}

Atoms ==
    {Id(n) : n \in ArgNames} \cup {Num(t) : t \in Numbers}
    \cup {Str(q, t) : q \in Quotes, t \in LiteralTexts}

ArgsOver(values) ==
    {Pos(v) : v \in values} \cup {Kw(l, v) : l \in Labels, v \in values}

ArgLists(values, n) == UNION {[1..len -> ArgsOver(values)] : len \in 1..n}

\* calls whose arguments are atoms
Calls1 == {CallExpr(f, al) : f \in FuncIds, al \in ArgLists(Atoms, MaxArgs)}

\* calls whose first argument is a call, as in @div(@clip(score, lower=0), 1e6)
Calls2 ==
    {CallExpr(f, <<Pos(c)>> \o rest) :
        f \in FuncIds, c \in Calls1, rest \in {<<>>} \cup ArgLists(Atoms, MaxArgs - 1)}

FormulaExprs ==
    {Id(n) : n \in BareIdentifiers(MaxIdLen)} \cup Atoms \cup Calls1 \cup Calls2

\* a FormulaEngine() and the formula a caller is about to pass
InitExtract ==
    /\ rdict = NewEngine.d
    /\ function_docs = NewEngine.docs
    /\ constants = <<>>
    /\ formulas = <<>>
    /\ registered = NewEngine.reg
    /\ regdoc = NewEngine.rdoc
    /\ err = "none"
    /\ \E e \in FormulaExprs :
          call = [op |-> "formula", expr |-> e, formula |-> Render(e), result |-> {}]

\* engine.extract_references(formula)
ExtractReferences ==
    /\ call.op = "formula"
    /\ call' = [call EXCEPT !.op = "extract_references",
                            !.result = extract_references(call.formula)]
    /\ err' = "none"
    /\ UNCHANGED <<rdict, function_docs, constants, formulas, registered, regdoc>>

----------------------------------------------------------------------------
(* Specifications *)

DoRegister == \E name \in RegNames, func \in UserFuncs, doc \in Docs : Register(name, func, doc)
DoRegisterBatch == \E m \in BatchMaps(MaxBatch) : RegisterBatch(m)
DoAddConstant == \E name \in ConstNames, value \in ConstValues : AddConstant(name, value)
DoUnregister == \E name \in UnregNames : Unregister(name)

NextRegistry == DoRegister \/ DoRegisterBatch \/ DoAddConstant \/ DoUnregister

\* the registry under register, register_batch, add_constant and unregister
SpecRegistry == Init /\ [][NextRegistry]_vars

DoRegisterTriple == \E func \in UserFuncs : Register("triple", func, "")
DoUnregisterTriple == Unregister("triple")
DoAddFormula == \E column \in StoreColumns, formula \in FormulaTexts : AddFormula(column, formula)
DoApply ==
    \E df \in Datasets, given \in BOOLEAN, supplied \in FormulaMaps(MaxFormulas),
       inplace \in BOOLEAN :
        /\ (~given => supplied = <<>>)
        /\ Apply(df, given, supplied, inplace)
DoValidate ==
    \E df \in Datasets, given \in BOOLEAN, supplied \in FormulaMaps(MaxFormulas) :
        /\ (~given => supplied = <<>>)
        /\ Validate(df, given, supplied)

NextEngine ==
    DoRegisterTriple \/ DoUnregisterTriple \/ DoAddFormula \/ DoApply \/ DoValidate

\* the engine: formulas are stored, applied and validated while the function
\* the formulas call is registered, replaced and unregistered
SpecEngine == Init /\ [][NextEngine]_vars

DoAddFormulaText ==
    \E column \in StoreColumns, formula \in ConfigTexts : AddFormula(column, formula)
DoFromDict == \E config \in Configs : FromDict(config)

NextConfig == DoAddFormulaText \/ DoAddConstant \/ DoFromDict \/ ToDictCall

\* the engine under add_formula, add_constant, from_dict and to_dict
SpecConfig == Init /\ [][NextConfig]_vars

NextExtract == ExtractReferences

\* extract_references applied to each formula of FormulaExprs
SpecExtract == InitExtract /\ [][NextExtract]_vars

----------------------------------------------------------------------------
(* Properties of apply and validate, checked under SpecEngine *)

IsPrefix(a, b) == Len(a) <= Len(b) /\ \A i \in DOMAIN a : a[i] = b[i]

\* pair j of the last call was evaluated without an exception
Succeeded(j) ==
    j < Len(call.attempted) \/ (j = Len(call.attempted) /\ ~call.raised)

\* an earlier pair of the last call writes the column pair j reads
WrittenBefore(j) == \E i \in 1..(j - 1) : call.resolved[i].k = call.resolved[j].v.arg

\* only a later pair of the last call writes the column pair j reads
WrittenOnlyLater(j) ==
    /\ ~WrittenBefore(j)
    /\ \E i \in (j + 1)..Len(call.resolved) : call.resolved[i].k = call.resolved[j].v.arg
    /\ call.resolved[j].v.arg \notin DictKeys(call.before)

\* C1: apply attempts the pairs of the resolved mapping in insertion order;
\* a pair that is reached and reads the column of an earlier pair succeeds
\* and its column is the registered function applied to the earlier pair's
\* result; a pair that reads a column only a later pair produces (and the
\* dataset lacks) fails.
C1_OrderAndChaining ==
    call.op = "apply" =>
        LET fs == call.resolved
        IN  /\ IsPrefix(call.attempted, KeyList(fs))
            /\ (~call.raised => Len(call.attempted) = Len(fs))
            /\ \A j \in DOMAIN fs :
                /\ (j <= Len(call.attempted) /\ WrittenBefore(j)) =>
                      /\ Succeeded(j)
                      /\ fs[j].k \in DictKeys(call.work)
                      /\ fs[j].v.arg \in DictKeys(call.work)
                      /\ DictVal(call.work, fs[j].k) =
                            CallFn(DictVal(rdict, fs[j].v.fn),
                                   DictVal(call.work, fs[j].v.arg)).v
                /\ WrittenOnlyLater(j) =>
                      (call.raised /\ Len(call.attempted) <= j)

\* a chained apply succeeded: a pair read a column that only an earlier pair
\* of the same call produced
C1_Witness ==
    /\ call.op = "apply"
    /\ ~call.raised
    /\ \E j \in DOMAIN call.resolved :
          WrittenBefore(j) /\ call.resolved[j].v.arg \notin DictKeys(call.before)

\* C2: when apply raises, the failing pair k is the last one attempted: the
\* message holds k's column and formula text, the pairs before k were
\* attempted and their columns are in the working dataset, no pair after k
\* was attempted or written, and column k is neither created nor changed;
\* in place, the caller's dataset holds its original columns and those of
\* the pairs before k.
C2_FailFast ==
    (call.op = "apply" /\ call.raised) =>
        LET fs == call.resolved
            k == Len(call.attempted)
            old(c) == IF c \in DictKeys(call.before)
                      THEN c \in DictKeys(call.work)
                           /\ DictVal(call.work, c) = DictVal(call.before, c)
                      ELSE c \notin DictKeys(call.work)
        IN  /\ err = "ValueError"
            /\ k \in DOMAIN fs
            /\ call.attempted = KeyList(SubSeq(fs, 1, k))
            /\ call.message[2] = fs[k].k
            /\ call.message[4] = fs[k].v
            /\ ~EvalFormula(call.work, fs[k].k, fs[k].v).ok
            /\ \A i \in 1..(k - 1) : fs[i].k \in DictKeys(call.work)
            /\ \A j \in k..Len(fs) : old(fs[j].k)
            /\ DictKeys(call.work) =
                  DictKeys(call.before) \cup {fs[i].k : i \in 1..(k - 1)}
            /\ (call.inplace => call.caller = call.work)

\* apply in place raised on the second pair after the first pair wrote its
\* column
C2_Witness ==
    /\ call.op = "apply"
    /\ call.raised
    /\ call.inplace
    /\ Len(call.attempted) = 2
    /\ call.caller # call.before

\* C3: apply without inplace leaves the caller's dataset as it was and works
\* on another object, whether it returns or raises; apply with inplace
\* writes into the caller's dataset and returns that object.
C3_CopyOrInPlace ==
    call.op = "apply" =>
        /\ (~call.inplace => (call.caller = call.before /\ ~call.same))
        /\ (call.inplace => (call.same /\ call.caller = call.work))

\* apply in copy mode wrote a column into its copy
C3_Witness ==
    /\ call.op = "apply"
    /\ ~call.inplace
    /\ ~call.raised
    /\ call.work # call.before

\* the columns of the messages validate returned, in order
ErrorColumns == [e \in DOMAIN call.errors |-> call.errors[e][1]]

\* validate reported pair j as failing
Reported(j) == \E e \in DOMAIN call.errors : call.errors[e][1] = call.resolved[j].k

\* the function pair j calls is registered and takes one argument
Usable(j) ==
    /\ call.resolved[j].v.fn \in DictKeys(rdict)
    /\ CallFn(DictVal(rdict, call.resolved[j].v.fn), <<0>>).ok

\* the column pair j reads is in the dataset or was written by an earlier
\* pair that did not fail
Available(j) ==
    \/ call.resolved[j].v.arg \in DictKeys(call.before)
    \/ \E i \in 1..(j - 1) :
          call.resolved[i].k = call.resolved[j].v.arg /\ ~Reported(i)

\* an earlier pair that failed is the one that writes the column pair j reads
DependsOnFailed(j) ==
    \E i \in 1..(j - 1) : call.resolved[i].k = call.resolved[j].v.arg /\ Reported(i)

\* what C4 says of validate apart from its last sentence
ValidateReport ==
    LET fs == call.resolved
    IN  /\ call.attempted = KeyList(fs)
        /\ \A e \in DOMAIN call.errors :
              Len(call.errors[e]) = 3 /\ call.errors[e][2] = ": "
        /\ ErrorColumns =
              SelectSeq(KeyList(fs), LAMBDA c : \E e \in DOMAIN call.errors :
                                                    call.errors[e][1] = c)
        /\ \A j \in DOMAIN fs : Reported(j) <=> (~Usable(j) \/ ~Available(j))
        /\ \A j \in DOMAIN fs :
              ~Reported(j) =>
                  /\ fs[j].k \in DictKeys(call.work)
                  /\ Len(DictVal(call.work, fs[j].k)) = 1
        /\ (call.errors = <<>> <=> \A j \in DOMAIN fs : Usable(j) /\ Available(j))

\* C4 (as amended): validate attempts every pair of the resolved mapping in
\* insertion order with the chaining of apply and returns one message
\* <column>: <message> per failing column, in formula order, none exactly
\* when every formula succeeds on the sample; a formula whose dependency was
\* not written because an earlier formula failed, and is not a column of the
\* dataset, is reported as failing.
C4_ValidateCollects ==
    call.op = "validate" =>
        /\ ValidateReport
        /\ \A j \in DOMAIN call.resolved :
              (DependsOnFailed(j) /\ call.resolved[j].v.arg \notin DictKeys(call.before))
                  => Reported(j)

\* C4 (as claimed): every formula whose dependency was not written because
\* an earlier formula failed is reported as failing.
C4_Original ==
    call.op = "validate" =>
        /\ ValidateReport
        /\ \A j \in DOMAIN call.resolved : DependsOnFailed(j) => Reported(j)

\* validate reported two columns, the second because the first, which would
\* have written the column it reads, failed
C4_Witness ==
    /\ call.op = "validate"
    /\ Len(call.errors) = 2
    /\ \E j \in DOMAIN call.resolved :
          /\ DependsOnFailed(j)
          /\ call.resolved[j].v.arg \notin DictKeys(call.before)
          /\ Usable(j)

\* C5: validate leaves the caller's dataset as it was and raises nothing,
\* whatever its formulas do on the sample.
C5_ValidateNoMutation ==
    call.op = "validate" =>
        /\ call.caller = call.before
        /\ err = "none"
        /\ ~call.raised

\* validate overwrote the existing column x on its sample and reported
\* another column as failing
C5_Witness ==
    /\ call.op = "validate"
    /\ call.errors # <<>>
    /\ \E j \in DOMAIN call.resolved :
          /\ call.resolved[j].k \in DictKeys(call.before)
          /\ ~Reported(j)
          /\ DictVal(call.work, call.resolved[j].k) #
                DictVal(Head1(call.before), call.resolved[j].k)

\* C6: with a formulas mapping supplied, apply and validate evaluate the
\* supplied pairs and none of the store; with formulas omitted they evaluate
\* the store; apply with nothing to evaluate returns the dataset unchanged
\* without error.
C6_SuppliedOrStore ==
    call.op \in {"apply", "validate"} =>
        /\ (call.given =>
               /\ call.resolved = call.supplied
               /\ IsPrefix(call.attempted, KeyList(call.supplied)))
        /\ (~call.given => call.resolved = formulas)
        /\ ((call.op = "apply" /\ call.resolved = <<>>) =>
               (~call.raised /\ call.work = call.before))

----------------------------------------------------------------------------
(* Properties of the registry, checked under SpecRegistry *)

\* C7: has(name) holds exactly for the names registered and not unregistered
\* since; get(name) returns the callable of the latest register when
\* has(name) holds, and raises KeyError otherwise.
C7_HasGet ==
    \A name \in Names :
        /\ has(name) <=> registered[name] # NotRegistered
        /\ has(name) => get(name) = [err |-> "none", val |-> registered[name]]
        /\ ~has(name) => get(name).err = "KeyError"

\* C8: unregister(name) raises nothing and removes the callable and the doc
\* of name; for a name that is not registered it leaves the registry as it
\* was.
C8_Unregister ==
    [][\A name \in UnregNames :
          Unregister(name) =>
              /\ err' = "none"
              /\ name \notin DictKeys(rdict')
              /\ name \notin DOMAIN function_docs'
              /\ (registered[name] = NotRegistered =>
                     (rdict' = rdict /\ function_docs' = function_docs))]_vars

\* C9: while the docs attribute is the dict of the constructor, get_doc(name)
\* is the doc argument of the latest register(name, ...), and the empty
\* string when that call gave no doc or name is not registered.
C9_GetDoc ==
    DocsAttr(rdict) = DocsObj =>
        \A name \in Names : get_doc(name) = [err |-> "none", val |-> regdoc[name]]

\* C10: list_functions returns each registered name once and nothing else,
\* no bookkeeping entry, and lists a name exactly when has(name) holds.
C10_ListFunctions ==
    LET listed == {list_functions[i] : i \in DOMAIN list_functions}
    IN  /\ Cardinality(listed) = Len(list_functions)
        /\ "_function_docs" \in listed => registered["_function_docs"] # NotRegistered
        /\ \A name \in Names :
              /\ name \in listed <=> registered[name] # NotRegistered
              /\ name \in listed <=> has(name)

----------------------------------------------------------------------------
(* Properties of from_dict and to_dict, checked under SpecConfig *)

\* C11: the configuration to_dict exports round-trips through from_dict: the
\* re-imported engine holds the same column-to-formula mapping in the same
\* order and the same constants, so its to_dict equals the exported one.
C11_RoundTrip ==
    call.op = "to_dict" =>
        LET e == FromDictEngine(call.config)
        IN  ToDict(e.constants, e.formulas) = call.config

\* the entry is a bare string or a record whose enabled flag is true or absent
Kept(entry) == entry.bare \/ ~entry.has_enabled \/ entry.enabled

ExpectedStore(cols) ==
    LET kept == SelectSeq(cols, LAMBDA c : Kept(c.v))
    IN  [i \in DOMAIN kept |-> [k |-> kept[i].k, v |-> kept[i].v.formula]]

\* C12: from_dict stores, in the order of the columns mapping, exactly the
\* entries that are a bare string or a record enabled or without the flag,
\* with the text unchanged; records with enabled=false are not stored; every
\* entry of the constants mapping is added as a constant.
C12_FromDict ==
    call.op = "from_dict" =>
        /\ formulas = ExpectedStore(call.config.columns)
        /\ constants = call.config.constants
        /\ \A i \in DOMAIN call.config.constants :
              LET c == call.config.constants[i]
              IN  c.k \in DictKeys(rdict) /\ DictVal(rdict, c.k) = ConstFn(c.v)

----------------------------------------------------------------------------
(* Constants and the registry, checked under SpecRegistry *)

\* C16: every name in the constants side-table is registered in the function
\* registry as a zero-argument callable returning the value the side-table
\* stores for that name.
C16_ConstantsRegistered ==
    \A i \in DOMAIN constants :
        /\ has(constants[i].k)
        /\ get(constants[i].k).err = "none"
        /\ get(constants[i].k).val = ConstFn(constants[i].v)

----------------------------------------------------------------------------
(* The formula store, checked under SpecEngine *)

\* C17: the store holds at most one formula per target column, in the order
\* of the targets' first add_formula calls: add_formula for a stored target
\* replaces its text at its position, for a new target it appends; apply
\* with omitted formulas attempts the store's targets in that order; apply
\* and validate leave the store as it was, also when formulas are passed.
C17_StoreOrder ==
    /\ \A i, j \in DOMAIN formulas : i # j => formulas[i].k # formulas[j].k
    /\ call.op = "add_formula" =>
          LET column == call.supplied[1].k
              formula == call.supplied[1].v
              old == call.store
          IN  IF column \in DictKeys(old)
              THEN /\ KeyList(formulas) = KeyList(old)
                   /\ \A i \in DOMAIN old :
                         formulas[i].v = IF old[i].k = column THEN formula
                                         ELSE old[i].v
              ELSE formulas = Append(old, [k |-> column, v |-> formula])
    /\ call.op \in {"apply", "validate"} =>
          /\ formulas = call.store
          /\ ~call.given =>
                /\ call.resolved = call.store
                /\ IsPrefix(call.attempted, KeyList(call.store))
                /\ (~call.raised => call.attempted = KeyList(call.store))

\* add_formula replaced the text of the first of two stored targets
C17_Witness ==
    /\ call.op = "add_formula"
    /\ Len(call.store) = 2
    /\ call.supplied[1].k = call.store[1].k
    /\ call.supplied[1].v # call.store[1].v
    /\ KeyList(formulas) = KeyList(call.store)
    /\ formulas[1].v = call.supplied[1].v

----------------------------------------------------------------------------
(* Properties of extract_references, checked under SpecExtract *)

\* the bare identifiers the expression reads: those in the position of a
\* positional argument or of a keyword argument's value, or the whole formula
RECURSIVE ReadsOf(_)
ReadsOf(e) ==
    IF e.kind = "id" THEN {e.name}
    ELSE UNION {ReadsOf(e.args[i].value) : i \in DOMAIN e.args}

\* the names that occur immediately after "@"
RECURSIVE CalledOf(_)
CalledOf(e) ==
    IF e.kind = "call"
    THEN {e.name} \cup UNION {CalledOf(e.args[i].value) : i \in DOMAIN e.args}
    ELSE {}

\* the names that occur as a keyword-argument label
RECURSIVE LabelsOf(_)
LabelsOf(e) ==
    {e.args[i].label : i \in {j \in DOMAIN e.args : e.args[j].label # <<>>}}
    \cup UNION {LabelsOf(e.args[i].value) : i \in DOMAIN e.args}

\* the contents of the quoted literals
RECURSIVE QuotedOf(_)
QuotedOf(e) ==
    IF e.kind = "str" THEN {e.name}
    ELSE UNION {QuotedOf(e.args[i].value) : i \in DOMAIN e.args}

\* C13: for a formula that is a single bare identifier x,
\* extract_references(x) = {x}.
C13_BareIdentifier ==
    (call.op = "extract_references" /\ call.expr.kind = "id") =>
        call.result = {call.expr.name}

\* C14: the result of extract_references holds no name that occurs in the
\* formula only inside a quoted literal, no name that occurs immediately
\* after "@" and no name that occurs as a keyword-argument label.
C14_OnlyReferences ==
    call.op = "extract_references" =>
        LET e == call.expr
            onlyQuoted == QuotedOf(e) \ (ReadsOf(e) \cup CalledOf(e) \cup LabelsOf(e))
        IN  /\ call.result \cap onlyQuoted = {}
            /\ call.result \cap CalledOf(e) = {}
            /\ call.result \cap LabelsOf(e) = {}

\* C15: every bare identifier the formula reads, as a positional argument or
\* as a keyword argument's value, is in the result of extract_references,
\* also when the same name is a keyword label, follows "@" or is quoted
\* elsewhere in the formula.
C15_AllReads ==
    call.op = "extract_references" => ReadsOf(call.expr) \subseteq call.result

====
